---- MODULE Spec2Model ----
(***************************************************************************)
(* Model of github.com/Devoter/gorm-migrator: the Migrator controller      *)
(* (Init, Up, Down, Reset, Version, SetVersion) over a history table, and  *)
(* the two reconciliation functions mergeMigrations / correlateMigrations. *)
(*                                                                         *)
(* Versions are int64 in the source.  Every version and target of the      *)
(* model lies in -2 .. MaxVersion+1, far from the int64 limits, so         *)
(* `target + 1` and `last + 1` never wrap here.                            *)
(***************************************************************************)
EXTENDS Integers, Sequences, FiniteSets, TLC

\* ------------------------------------------------------------------ bounds
MaxVersion == 3

\* --------------------------------------------------------------- constants
\* Version of the zero-migration that NewMigrator and Init use.
Sentinel == 1
\* parseVersion's "no target given".
Unset == -1

VARIABLES
    migrations,   \* Migrator.migrations: the sorted registry
    table,        \* does the `migrations` table exist in the database
    rows,         \* the table's records (versions), in insertion order
    last,         \* the most recent call: arguments, results, procedures run
    prev,         \* a summary of the call before it
    fnIn,         \* arguments handed to the reconciliation function under test
    fnOut         \* its result

vars == <<migrations, table, rows, last, prev, fnIn, fnOut>>

\* ----------------------------------------------------------- package migration
\* Migration{Version, Stored, Up/Down}.  Fn tells whether Up/Down are set:
\* registry descriptors carry procedures, rows loaded from the table do not.
\* Dummy tells whether they are migration.DummyUpDown.  Every descriptor has
\* function values of its own: Nth tells the procedures of the caller's
\* descriptors of one version apart (the first one's, the second one's; 0 when
\* the entry has none of the caller's).
Migration(v, stored, fn) ==
    [Version |-> v, Stored |-> stored, Fn |-> fn, Dummy |-> FALSE,
     Nth |-> IF fn THEN 1 ELSE 0]

\* The zero-migration NewMigrator appends (line 20).
ZeroMigration ==
    [Version |-> Sentinel, Stored |-> FALSE, Fn |-> TRUE, Dummy |-> TRUE, Nth |-> 0]

CompareMigrations(left, right) == left.Version < right.Version

Less(mig, migration) == CompareMigrations(mig, migration)

\* ----------------------------------------------------------------- helpers
Range(s) == {s[k] : k \in 1..Len(s)}

Versions(s) == {s[k].Version : k \in 1..Len(s)}

SetMin(S) == CHOOSE x \in S : \A y \in S : x <= y

SetMax(S) == CHOOSE x \in S : \A y \in S : y <= x

RECURSIVE SortAsc(_)
SortAsc(S) == IF S = {} THEN <<>> ELSE <<SetMin(S)>> \o SortAsc(S \ {SetMin(S)})

IsAscending(s) == \A k \in 1..(Len(s) - 1) : s[k].Version < s[k + 1].Version

Front(s) == SubSeq(s, 1, Len(s) - 1)

\* One step of the insertion sort: m moves left past every entry it is Less
\* than, so it ends behind the entries of its own version.
sortInsert(sorted, m) ==
    LET n == Cardinality({k \in 1..Len(sorted) : ~Less(m, sorted[k])})
    IN  SubSeq(sorted, 1, n) \o <<m>> \o SubSeq(sorted, n + 1, Len(sorted))

\* sort.Sort(migration.Migrations(all)) (line 21).  For the short slices of
\* the model sort.Sort is an insertion sort: entries of equal version keep
\* the order they had.
RECURSIVE sortSort(_)
sortSort(s) == IF s = <<>> THEN <<>> ELSE sortInsert(sortSort(Front(s)), s[Len(s)])

\* A caller's slice of migrations with the given versions, in that order.
CallerList(vs) ==
    [k \in 1..Len(vs) |->
        [Migration(vs[k], FALSE, TRUE)
            EXCEPT !.Nth = Cardinality({l \in 1..k : vs[l] = vs[k]})]]

\* NewMigrator: append the zero-migration to the caller's list, whatever
\* the list holds, and sort.
NewMigrator(list) == sortSort(Append(list, ZeroMigration))

\* ---------------------------------------------------------- mergeMigrations
\* Variant: the unset bound forgets the `+ 1`.
mergeMax_noPlusOne(actual, target) ==
    IF Len(actual) > 0
    THEN IF target = Unset THEN actual[Len(actual)].Version ELSE target + 1
    ELSE 0

\* `max` of mergeMigrations (zero value when the registry is empty).
mergeMax(actual, target) ==
    IF Len(actual) > 0
    THEN IF target = Unset THEN actual[Len(actual)].Version + 1 ELSE target + 1
    ELSE 0

\* Variant: the bound is compared with <= instead of <.
underMax_inclusive(actual, j, max) == Len(actual) = 0 \/ actual[j + 1].Version <= max

\* The loop condition's registry part: actualLength == 0 || actual[j].Version < max.
underMax(actual, j, max) == Len(actual) = 0 \/ actual[j + 1].Version < max

\* The index the second comparison reads `applied` at (line 309).
mergeSecondIndex(i, j) == j

\* First loop (lines 305-317).  i, j are the Go (0-based) cursors.  Reading
\* applied[mergeSecondIndex] past the end is an index-out-of-range panic.
RECURSIVE mergeWalk(_, _, _, _, _, _)
mergeWalk(applied, actual, max, i, j, merged) ==
    IF i < Len(applied) /\ j < Len(actual) /\ underMax(actual, j, max)
    THEN IF Less(applied[i + 1], actual[j + 1])
         THEN mergeWalk(applied, actual, max, i + 1, j, Append(merged, applied[i + 1]))
         ELSE IF mergeSecondIndex(i, j) >= Len(applied)
         THEN [panic |-> TRUE, i |-> i, j |-> j, merged |-> merged]
         ELSE IF Less(actual[j + 1], applied[mergeSecondIndex(i, j) + 1])
         THEN mergeWalk(applied, actual, max, i, j + 1, Append(merged, actual[j + 1]))
         ELSE mergeWalk(applied, actual, max, i + 1, j + 1, Append(merged, applied[i + 1]))
    ELSE [panic |-> FALSE, i |-> i, j |-> j, merged |-> merged]

\* Second loop (lines 319-322): the rest of applied.
mergeRestApplied(applied, i, merged) == merged \o SubSeq(applied, i + 1, Len(applied))

\* Third loop (lines 324-327): the rest of the registry while under max.
RECURSIVE mergeRestActual(_, _, _, _)
mergeRestActual(actual, max, j, merged) ==
    IF j < Len(actual) /\ underMax(actual, j, max)
    THEN mergeRestActual(actual, max, j + 1, Append(merged, actual[j + 1]))
    ELSE merged

mergeMigrations(applied, actual, target) ==
    LET max == mergeMax(actual, target)
        w   == mergeWalk(applied, actual, max, 0, 0, <<>>)
    IN  IF w.panic
        THEN [panic |-> TRUE, merged |-> <<>>]
        ELSE [panic |-> FALSE,
              merged |-> mergeRestActual(actual, max, w.j,
                                         mergeRestApplied(applied, w.i, w.merged))]

\* ------------------------------------------------------ correlateMigrations
\* Variant: the match branch keeps the applied entry.
correlateMatch_applied(applied, actual, i, j) == applied[i + 1]

\* What the match branch appends (line 351): the registry descriptor.
correlateMatch(applied, actual, i, j) == actual[j + 1]

\* Variant: the entry is appended but no error is set.
correlateAbsentInLoop_noError(applied, i, correlated) ==
    [correlated |-> Append(correlated, applied[i + 1]), err |-> "nil"]

\* An applied entry below the registry's head has no descriptor (lines 343-346).
correlateAbsentInLoop(applied, i, correlated) ==
    [correlated |-> Append(correlated, applied[i + 1]),
     err |-> "ErrorSomeMigrationsAreAbsent"]

\* Variant: the missing entry is not appended.
correlateAbsentAtEnd_dropped(applied, i, correlated) ==
    [correlated |-> correlated, err |-> "ErrorSomeMigrationsAreAbsent"]

\* Applied entries are left when the registry is exhausted (lines 357-360).
correlateAbsentAtEnd(applied, i, correlated) ==
    [correlated |-> Append(correlated, applied[i + 1]),
     err |-> "ErrorSomeMigrationsAreAbsent"]

RECURSIVE correlateWalk(_, _, _, _, _)
correlateWalk(applied, actual, i, j, correlated) ==
    IF i < Len(applied) /\ j < Len(actual)
    THEN IF Less(applied[i + 1], actual[j + 1])
         THEN correlateAbsentInLoop(applied, i, correlated)
         ELSE IF Less(actual[j + 1], applied[i + 1])
         THEN correlateWalk(applied, actual, i, j + 1, correlated)
         ELSE correlateWalk(applied, actual, i + 1, j + 1,
                            Append(correlated, correlateMatch(applied, actual, i, j)))
    ELSE IF i < Len(applied)
         THEN correlateAbsentAtEnd(applied, i, correlated)
         ELSE [correlated |-> correlated, err |-> "nil"]

correlateMigrations(applied, actual) == correlateWalk(applied, actual, 0, 0, <<>>)

\* ------------------------------------------------------------ history table
\* db.Order("version ASC").Find(&history), then Stored = true on each entry.
findAsc(rws) ==
    LET vs == SortAsc(Range(rws))
    IN  [k \in 1..Len(vs) |-> Migration(vs[k], TRUE, FALSE)]

\* Variant: the order of the query is ascending.
firstDesc_ascending(rws) == SetMin(Range(rws))

\* db.Order("version DESC").First(&old)
firstDesc(rws) == SetMax(Range(rws))

\* db.Last(&mig): GORM orders by the primary key (Version) descending.
dbLast(rws) == SetMax(Range(rws))

\* db.Delete(&mig): delete by primary key.
dbDelete(rws, v) == SelectSeq(rws, LAMBDA x : x # v)

\* db.Create fails on a primary key that is already present.
dbCreateFails(rws, v) == v \in Range(rws)

\* The procedures of an entry, as a value: <<version, n>> for those of the
\* caller's n-th descriptor of that version.
Proc(migr) == <<migr.Version, migr.Nth>>

\* No procedure.
NoProc == <<0, 0>>

\* The entry's own procedure returns an error: procFail names the one that
\* does.  migration.DummyUpDown returns nil.
applyFails(migr, procFail) == ~migr.Dummy /\ Proc(migr) = procFail

\* Result of a call: the returned triple, the procedures it invoked in order
\* (<<"Up", v>> / <<"Down", v>>), and the table's records afterwards.
Result(old, new, err, log, rws) ==
    [old |-> old, new |-> new, err |-> err, log |-> log, rows |-> rws]

\* oldVersion/newVersion of Up and Reset before any step (lines 93-99, 171-177).
lastVersion(history) == IF Len(history) > 0 THEN history[Len(history)].Version ELSE 0

\* ------------------------------------------------------------------ Migrator.Up
\* Variant: the record of an applied migration is not written.
upInsert_none(rws, migr) == rws

\* What Up inserts after a successful forward procedure (line 112).
upInsert(rws, migr) == Append(rws, migr.Version)

\* Is this merged entry one Up has to apply (line 104).
upPending(migr) == ~migr.Stored

\* Variant: the error of the forward procedure is not looked at.
upForwardFails_ignored(migr, procFail) == FALSE

\* Does the forward procedure of this entry return an error (line 105).
upForwardFails(migr, procFail) == applyFails(migr, procFail)

\* The loop of lines 103-117.  k: position in merged; n: number of the next
\* database call of this Up; procFail: the procedure that returns an
\* error (0: none); dbFail: number of the database call that fails (0: none).
RECURSIVE upWalk(_, _, _, _, _, _, _, _, _)
upWalk(merged, k, old, new, log, rws, n, procFail, dbFail) ==
    IF k > Len(merged) THEN Result(old, new, "nil", log, rws)
    ELSE LET migr == merged[k] IN
         IF ~upPending(migr)
         THEN upWalk(merged, k + 1, old, new, log, rws, n, procFail, dbFail)
         ELSE IF ~migr.Fn THEN Result(old, new, "panic", log, rws)
         ELSE IF upForwardFails(migr, procFail)
         THEN Result(old, new, "proc", Append(log, <<"Up", migr.Version>>), rws)
         ELSE IF n = dbFail \/ dbCreateFails(rws, migr.Version)
         THEN Result(old, migr.Version, "db", Append(log, <<"Up", migr.Version>>), rws)
         ELSE upWalk(merged, k + 1, old, migr.Version,
                     Append(log, <<"Up", migr.Version>>),
                     upInsert(rws, migr), n + 1, procFail, dbFail)

Up(reg, tbl, rws, target, procFail, dbFail) ==
    IF ~tbl \/ dbFail = 1 THEN Result(0, 0, "db", <<>>, rws)
    ELSE LET history == findAsc(rws)
             version == lastVersion(history)
             m       == mergeMigrations(history, reg, target)
         IN  IF m.panic THEN Result(version, version, "panic", <<>>, rws)
             ELSE upWalk(m.merged, 1, version, version, <<>>, rws, 2, procFail, dbFail)

\* ---------------------------------------------------------------- Migrator.Down
\* Variant: the scan stops at the first entry at or below the version.
downIndex_atMost(reg, v) ==
    IF \E k \in 1..Len(reg) : reg[k].Version <= v
    THEN SetMax({k \in 1..Len(reg) : reg[k].Version <= v}) - 1
    ELSE -1

\* Go index (0-based) of the registry entry with this version, -1 if none
\* (the descending scan of lines 134-153 stops at the highest such index).
downIndex(reg, v) ==
    IF \E k \in 1..Len(reg) : reg[k].Version = v
    THEN SetMax({k \in 1..Len(reg) : reg[k].Version = v}) - 1
    ELSE -1

\* Variant: Down deletes the predecessor's record.
downDeleted_predecessor(reg, i) == reg[i].Version

\* The record Down deletes: that of the matched entry (line 145).
downDeleted(reg, i) == reg[i + 1].Version

\* Does Down reverse the matched entry (line 138).
downReverses(i) == i > 0

Down(reg, tbl, rws, procFail, dbFail) ==
    IF ~tbl \/ rws = <<>> \/ dbFail = 1 THEN Result(0, 0, "db", <<>>, rws)
    ELSE LET old == firstDesc(rws)
             i   == downIndex(reg, old)
         IN  IF i = -1 \/ ~downReverses(i) THEN Result(old, old, "nil", <<>>, rws)
             ELSE IF applyFails(reg[i + 1], procFail)
             THEN Result(old, old, "proc", <<<<"Down", old>>>>, rws)
             ELSE IF dbFail = 2
             THEN Result(old, reg[i].Version, "db", <<<<"Down", old>>>>, rws)
             ELSE Result(old, reg[i].Version, "nil", <<<<"Down", old>>>>,
                         dbDelete(rws, downDeleted(reg, i)))

\* --------------------------------------------------------------- Migrator.Reset
\* Variant: the zero-migration is deleted like the others.
resetDeletes_all(migr) == migr.Version > 0

\* "don't delete zero migration" (line 201).
resetDeletes(migr) == migr.Version > 1

\* The loop of lines 185-207.  i: Go index into correlated, descending.
RECURSIVE resetWalk(_, _, _, _, _, _, _, _, _)
resetWalk(correlated, i, old, new, log, rws, n, procFail, dbFail) ==
    IF i < 0 THEN Result(old, new, "nil", log, rws)
    ELSE LET migr == correlated[i + 1]
             log2 == Append(log, <<"Down", migr.Version>>)
             new2 == IF i > 0 THEN correlated[i].Version ELSE migr.Version
         IN  IF ~migr.Fn THEN Result(old, new, "panic", log, rws)
             ELSE IF applyFails(migr, procFail) THEN Result(old, new, "proc", log2, rws)
             ELSE IF ~resetDeletes(migr)
             THEN resetWalk(correlated, i - 1, old, new2, log2, rws, n, procFail, dbFail)
             ELSE IF n = dbFail THEN Result(old, new2, "db", log2, rws)
             ELSE resetWalk(correlated, i - 1, old, new2, log2,
                            dbDelete(rws, migr.Version), n + 1, procFail, dbFail)

Reset(reg, tbl, rws, procFail, dbFail) ==
    IF ~tbl \/ dbFail = 1 THEN Result(0, 0, "db", <<>>, rws)
    ELSE LET history == findAsc(rws)
             version == lastVersion(history)
             c       == correlateMigrations(history, reg)
         IN  IF c.err # "nil" THEN Result(version, version, c.err, <<>>, rws)
             ELSE resetWalk(c.correlated, Len(c.correlated) - 1, version, version,
                            <<>>, rws, 2, procFail, dbFail)

\* ------------------------------------------------------------- Migrator.Version
Version(tbl, rws, dbFail) ==
    IF ~tbl \/ rws = <<>> \/ dbFail = 1 THEN Result(0, 0, "db", <<>>, rws)
    ELSE Result(dbLast(rws), dbLast(rws), "nil", <<>>, rws)

\* ---------------------------------------------------------- Migrator.SetVersion
\* Variant: the scan stops at the first entry at or above the target.
setVersionIndex_atLeast(reg, target) ==
    IF \E k \in 1..Len(reg) : reg[k].Version >= target
    THEN SetMin({k \in 1..Len(reg) : reg[k].Version >= target}) - 1
    ELSE -1

\* index of lines 234-244: Go index of the first entry with the target
\* version, -1 if there is none.
setVersionIndex(reg, target) ==
    IF \E k \in 1..Len(reg) : reg[k].Version = target
    THEN SetMin({k \in 1..Len(reg) : reg[k].Version = target}) - 1
    ELSE -1

\* migs of lines 235-244: the registry from its first entry through target.
setVersionMigs(reg, index) == SubSeq(reg, 1, index + 1)

\* Variant: the records are inserted from the target down.
bulkCreate_descending(migs) == [k \in 1..Len(migs) |-> migs[Len(migs) + 1 - k].Version]

\* db.Create(&migs): one record per entry, in order.
bulkCreate(migs) == [k \in 1..Len(migs) |-> migs[k].Version]

\* db.Create(&migs) is one INSERT: it fails, and inserts nothing, when two
\* entries have the same primary key.
bulkCreateFails(migs) ==
    \E k, l \in 1..Len(migs) : k # l /\ migs[k].Version = migs[l].Version

SetVersion(reg, tbl, rws, target, dbFail) ==
    LET v == Version(tbl, rws, dbFail) IN
    IF v.err # "nil" THEN Result(0, 0, v.err, <<>>, rws)
    ELSE LET oldVersion == v.old
             index      == setVersionIndex(reg, target)
             new1       == IF index # -1 /\ oldVersion = target THEN oldVersion ELSE 0
         IN  IF index = -1
             THEN Result(oldVersion, 0, "ErrorTargetVersionNotFound", <<>>, rws)
             ELSE IF dbFail = 2 THEN Result(oldVersion, new1, "db", <<>>, rws)
             ELSE LET migs == setVersionMigs(reg, index)
                  IN  IF dbFail = 3 \/ bulkCreateFails(migs)
                      THEN Result(oldVersion, new1, "db", <<>>, <<>>)
                      ELSE Result(oldVersion, migs[Len(migs)].Version, "nil", <<>>,
                                  bulkCreate(migs))

\* ---------------------------------------------------------------- Migrator.Init
\* Returns the result and whether the table exists afterwards.  CreateTable
\* fails on an existing table.
InitOp(tbl, rws, dbFail) ==
    IF tbl \/ dbFail = 1 THEN [res |-> Result(0, 0, "db", <<>>, rws), table |-> tbl]
    ELSE IF dbFail = 2 THEN [res |-> Result(0, 0, "db", <<>>, rws), table |-> TRUE]
    ELSE [res |-> Result(0, 0, "nil", <<>>, Append(rws, Sentinel)), table |-> TRUE]

\* ============================================================ state machine
\* Targets Up and SetVersion are called with: unset, 0, and every version
\* (some of them absent from the registry at hand).
Targets == Unset..MaxVersion

\* The procedures the caller gave, one per descriptor.
CallerProcs(reg) == {Proc(reg[k]) : k \in {l \in 1..Len(reg) : ~reg[l].Dummy}}

\* How a call may fail: <<p, d>>, p the one procedure of the registry that
\* returns an error (NoProc: none), d the number of the database call that
\* fails (0: none).  A call stops at its first failure, so one failure per
\* call gives every outcome.
Fails(reg, maxDb) ==
    {<<p, 0>> : p \in {NoProc} \cup CallerProcs(reg)}
      \cup {<<NoProc, d>> : d \in 1..maxDb}

\* The lists of at most n versions out of V, in any order.
Lists(V, n) == UNION {[1..m -> V] : m \in 0..n}

Distinct(s) == \A k, l \in 1..Len(s) : k # l => s[k] # s[l]

\* The caller's list as the design wants it: no version twice and none
\* that is the zero-migration's; in any order.
CallerLists ==
    {CallerList(vs) : vs \in {l \in Lists(2..MaxVersion, MaxVersion - 1) : Distinct(l)}}

\* Any caller's list, also with the zero-migration's version or a version
\* twice.
AnyCallerLists == {CallerList(vs) : vs \in Lists(1..MaxVersion, MaxVersion - 1)}

NoCall ==
    [op |-> "none", target |-> Unset, old |-> 0, new |-> 0, err |-> "nil",
     log |-> <<>>, before |-> <<>>, after |-> <<>>]

Call(op, target, res, before) ==
    [op |-> op, target |-> target, old |-> res.old, new |-> res.new,
     err |-> res.err, log |-> res.log, before |-> before, after |-> res.rows]

\* What is kept of the call before the last one.
NoPrev ==
    [op |-> "none", target |-> Unset, new |-> 0, err |-> "nil", before |-> {},
     ran |-> 0, log |-> <<>>]

Summary(c) ==
    [op |-> c.op, target |-> c.target, new |-> c.new, err |-> c.err,
     before |-> Range(c.before), ran |-> Len(c.log), log |-> c.log]

NoFn == [fn |-> "none"]

Record(op, target, res) ==
    /\ rows' = res.rows
    /\ last' = Call(op, target, res, rows)
    /\ prev' = Summary(last)
    /\ UNCHANGED <<migrations, fnIn, fnOut>>

Init ==
    /\ migrations \in {NewMigrator(S) : S \in CallerLists}
    /\ table = FALSE
    /\ rows = <<>>
    /\ last = NoCall
    /\ prev = NoPrev
    /\ fnIn = NoFn
    /\ fnOut = NoFn

DoInit ==
    \E dbFail \in 0..2 :
        LET r == InitOp(table, rows, dbFail)
        IN  /\ table' = r.table
            /\ Record("Init", Unset, r.res)

DoUp ==
    \E target \in Targets, f \in Fails(migrations, MaxVersion + 1) :
        /\ Record("Up", target, Up(migrations, table, rows, target, f[1], f[2]))
        /\ UNCHANGED table

DoDown ==
    \E f \in Fails(migrations, 2) :
        /\ Record("Down", Unset, Down(migrations, table, rows, f[1], f[2]))
        /\ UNCHANGED table

DoReset ==
    \E f \in Fails(migrations, MaxVersion) :
        /\ Record("Reset", Unset, Reset(migrations, table, rows, f[1], f[2]))
        /\ UNCHANGED table

DoVersion ==
    \E dbFail \in 0..1 :
        /\ Record("Version", Unset, Version(table, rows, dbFail))
        /\ UNCHANGED table

DoSetVersion ==
    \E target \in Targets, dbFail \in 0..3 :
        /\ Record("SetVersion", target, SetVersion(migrations, table, rows, target, dbFail))
        /\ UNCHANGED table

\* The program is started again on the same database with another registry.
Construct(list) ==
    /\ NewMigrator(list) # migrations
    /\ migrations' = NewMigrator(list)
    /\ last' = [NoCall EXCEPT !.op = "NewMigrator", !.before = rows, !.after = rows]
    /\ prev' = Summary(last)
    /\ UNCHANGED <<table, rows, fnIn, fnOut>>

Restart == \E S \in CallerLists : Construct(S)

\* NewMigrator is called again, in the same run, with the slice it was given
\* before, and the slice has spare capacity: append (line 20) wrote into the
\* slice's array and sort.Sort (line 21) reordered it, so the slice now reads
\* the registry without its last entry, and the Migrator made before shares
\* the array with the new one.
Reuse == Construct(Front(migrations))

NextFixed == DoInit \/ DoUp \/ DoDown \/ DoReset \/ DoVersion \/ DoSetVersion

Next == NextFixed \/ Restart

\* One program run: the registry never changes.
SpecFixed == Init /\ [][NextFixed]_vars

\* Any number of runs on the same database.
Spec == Init /\ [][Next]_vars

\* One program run with any caller's list.
InitLists ==
    /\ migrations \in {NewMigrator(S) : S \in AnyCallerLists}
    /\ table = FALSE
    /\ rows = <<>>
    /\ last = NoCall
    /\ prev = NoPrev
    /\ fnIn = NoFn
    /\ fnOut = NoFn

NextLists == NextFixed \/ Reuse

SpecLists == InitLists /\ [][NextLists]_vars

\* ------------------------------------------- the reconciliation functions alone
AppliedSeq(S) ==
    LET vs == SortAsc(S) IN [k \in 1..Len(vs) |-> Migration(vs[k], TRUE, FALSE)]

ActualSeq(S) ==
    LET vs == SortAsc(S) IN [k \in 1..Len(vs) |-> Migration(vs[k], FALSE, TRUE)]

FnVersions == 1..MaxVersion

InitFn ==
    /\ migrations = NewMigrator(<<>>)
    /\ table = FALSE
    /\ rows = <<>>
    /\ last = NoCall
    /\ prev = NoPrev
    /\ fnOut = NoFn
    /\ \/ \E A \in SUBSET FnVersions, R \in SUBSET FnVersions, t \in Targets :
            fnIn = [fn |-> "mergeMigrations", applied |-> AppliedSeq(A),
                    actual |-> ActualSeq(R), target |-> t]
       \/ \E A \in SUBSET FnVersions, R \in SUBSET FnVersions :
            fnIn = [fn |-> "correlateMigrations", applied |-> AppliedSeq(A),
                    actual |-> ActualSeq(R), target |-> Unset]
       \/ \E A \in SUBSET FnVersions, S \in CallerLists, t \in Targets :
          \E f \in Fails(NewMigrator(S), MaxVersion + 1) :
            fnIn = [fn |-> "Up", applied |-> AppliedSeq(A), actual |-> NewMigrator(S),
                    target |-> t, fail |-> f]

CallMerge ==
    /\ fnIn.fn = "mergeMigrations"
    /\ fnOut = NoFn
    /\ fnOut' = [fn |-> "mergeMigrations",
                 out |-> mergeMigrations(fnIn.applied, fnIn.actual, fnIn.target)]
    /\ UNCHANGED <<migrations, table, rows, last, prev, fnIn>>

CallCorrelate ==
    /\ fnIn.fn = "correlateMigrations"
    /\ fnOut = NoFn
    /\ fnOut' = [fn |-> "correlateMigrations",
                 out |-> correlateMigrations(fnIn.applied, fnIn.actual)]
    /\ UNCHANGED <<migrations, table, rows, last, prev, fnIn>>

\* Up on a table holding the records `applied` (inserted in version order)
\* under the registry `actual`.
CallUp ==
    /\ fnIn.fn = "Up"
    /\ fnOut = NoFn
    /\ fnOut' = [fn |-> "Up",
                 out |-> Up(fnIn.actual, TRUE, [k \in 1..Len(fnIn.applied) |-> fnIn.applied[k].Version],
                            fnIn.target, fnIn.fail[1], fnIn.fail[2])]
    /\ UNCHANGED <<migrations, table, rows, last, prev, fnIn>>

NextFn == CallMerge \/ CallCorrelate \/ CallUp

SpecFn == InitFn /\ [][NextFn]_vars

\* ================================================================== claims
RegistryVersions == Versions(migrations)

\* S is the set of versions of the first k registry entries, for some k.
IsPrefixOf(S, reg) == \E k \in 0..Len(reg) : S = {reg[i].Version : i \in 1..k}

\* The procedures of a log other than the zero-migration's no-ops.
RealSteps(log) == SelectSeq(log, LAMBDA e : e[2] # Sentinel)

Registry123 == RegistryVersions = {1, 2, 3}

\* C1: scenario with registry {1,2,3}.  Init on an absent table leaves exactly
\* record 1; Up(unset) from there runs forward 2 then 3, once each, returns
\* old=1 new=3 and leaves 1,2,3; Down from there runs only backward 3, returns
\* old=3 new=2 and leaves 1,2; Reset from there runs backward 2, returns new=1
\* and leaves only record 1.  Each step starts in the state the one before it
\* leaves, and a call is a function of registry, table and arguments.
C1_Scenario ==
    /\ (last.op = "Init" /\ last.err = "nil")
         => (last.before = <<>> /\ rows = <<Sentinel>>)
    /\ (Registry123 /\ last.op = "Up" /\ last.target = Unset /\ last.err = "nil"
          /\ last.before = <<1>>)
         => /\ last.log = << <<"Up", 2>>, <<"Up", 3>> >>
            /\ last.old = 1 /\ last.new = 3
            /\ rows = <<1, 2, 3>>
    /\ (Registry123 /\ last.op = "Down" /\ last.err = "nil" /\ last.before = <<1, 2, 3>>)
         => /\ last.log = << <<"Down", 3>> >>
            /\ last.old = 3 /\ last.new = 2
            /\ rows = <<1, 2>>
    /\ (Registry123 /\ last.op = "Reset" /\ last.err = "nil" /\ last.before = <<1, 2>>)
         => /\ RealSteps(last.log) = << <<"Down", 2>> >>
            /\ last.new = 1
            /\ rows = <<Sentinel>>

\* The scenario's Reset has run right after the scenario's Down.
C1_Witness ==
    /\ Registry123
    /\ prev.op = "Down" /\ prev.err = "nil" /\ prev.before = {1, 2, 3} /\ prev.new = 2
    /\ last.op = "Reset" /\ last.err = "nil" /\ last.before = <<1, 2>>
    /\ rows = <<Sentinel>>

\* A second Up with the target of a successful Up right before it (a restart
\* in between shows as last.op = "NewMigrator", so the registry is the same).
SecondUp ==
    /\ prev.op = "Up" /\ prev.err = "nil"
    /\ last.op = "Up" /\ last.target = prev.target

\* C2 as stated: for any store state and target, after a successful
\* Up(target) a second Up(target) with the same registry runs no forward
\* procedure, inserts no record and returns the first call's newVersion.
C2_Original ==
    SecondUp => /\ last.log = <<>>
                /\ last.after = last.before
                /\ (last.err = "nil" => last.new = prev.new)

\* C2 amended: the second Up(target) runs no forward procedure and inserts no
\* record in any store state; it returns the first call's newVersion when
\* the records held before the first call were a prefix of the registry.
C2_UpIdempotent ==
    SecondUp => /\ last.log = <<>>
                /\ last.after = last.before
                /\ (last.err = "nil" /\ IsPrefixOf(prev.before, migrations))
                     => last.new = prev.new

\* The first Up applied something and the second one returned.
C2_Witness ==
    /\ SecondUp /\ prev.ran > 0 /\ last.err = "nil"
    /\ IsPrefixOf(prev.before, migrations)

\* A successful Up(unset) right after a successful Down on a non-empty store.
DownThenUp ==
    /\ prev.op = "Down" /\ prev.err = "nil" /\ prev.before # {}
    /\ last.op = "Up" /\ last.target = Unset /\ last.err = "nil"

\* C3 as stated: Down then Up(unset), registry unchanged, leaves the set of
\* applied versions the store held before the Down.
C3_Original == DownThenUp => Range(rows) = prev.before

\* C3 amended: it does so when the store held a record for every registry
\* version, and only those, before the Down.
C3_DownUpRestores ==
    (DownThenUp /\ prev.before = RegistryVersions) => Range(rows) = prev.before

\* The Down reversed a migration and the Up applied it again.
C3_Witness ==
    /\ DownThenUp /\ prev.before = RegistryVersions
    /\ prev.ran = 1 /\ last.log # <<>>

\* C4: a successful SetVersion(v) runs no procedure, leaves exactly the
\* records of the registry entries from the first through v, returns
\* newVersion = v, and a Version() after it returns v.
C4_SetVersion ==
    /\ (last.op = "SetVersion" /\ last.err = "nil")
         => /\ last.target \in RegistryVersions
            /\ last.before # <<>>
            /\ last.log = <<>>
            /\ Range(rows) = {v \in RegistryVersions : v <= last.target}
            /\ Len(rows) = Cardinality(Range(rows))
            /\ last.new = last.target
    /\ (prev.op = "SetVersion" /\ prev.err = "nil" /\ last.op = "Version"
          /\ last.err = "nil")
         => last.new = prev.target

\* Version() has answered after a SetVersion that changed the records.
C4_Witness ==
    /\ prev.op = "SetVersion" /\ prev.err = "nil" /\ prev.target > Sentinel
    /\ prev.before # Range(rows)
    /\ last.op = "Version" /\ last.err = "nil"

MergeDone == fnOut.fn = "mergeMigrations"

AppliedVersions == Versions(fnIn.applied)

ActualVersions == Versions(fnIn.actual)

\* C5: for ascending A and R sharing no version, mergeMigrations(A, R, unset)
\* returns a strictly ascending sequence holding every version of A and of R
\* exactly once and nothing else.
C5_Original ==
    (MergeDone /\ fnIn.target = Unset /\ AppliedVersions \cap ActualVersions = {})
      => /\ ~fnOut.out.panic
         /\ IsAscending(fnOut.out.merged)
         /\ Versions(fnOut.out.merged) = AppliedVersions \cup ActualVersions
         /\ Len(fnOut.out.merged) = Cardinality(AppliedVersions \cup ActualVersions)

\* C6: a result of mergeMigrations(A, R, target) holds no version of R that
\* is not in A and exceeds target, and holds every version of A; Up(target)
\* runs no forward procedure of a version above target and deletes no record.
C6_MergeBound ==
    /\ (MergeDone /\ ~fnOut.out.panic)
         => /\ AppliedVersions \subseteq Versions(fnOut.out.merged)
            /\ fnIn.target # Unset
                 => \A v \in Versions(fnOut.out.merged) :
                        v \in ActualVersions \ AppliedVersions => v <= fnIn.target
    /\ fnOut.fn = "Up"
         => /\ AppliedVersions \subseteq Range(fnOut.out.rows)
            /\ \A k \in 1..Len(fnOut.out.log) :
                   /\ fnOut.out.log[k][1] = "Up"
                   /\ fnIn.target # Unset => fnOut.out.log[k][2] <= fnIn.target

\* Up applied something although versions above its target were pending and
\* others above it were recorded.
C6_Witness ==
    /\ fnOut.fn = "Up" /\ fnIn.target # Unset /\ fnOut.out.log # <<>>
    /\ \E v \in ActualVersions \ AppliedVersions : v > fnIn.target
    /\ \E v \in AppliedVersions : v > fnIn.target

CorrelateDone == fnOut.fn = "correlateMigrations"

\* C7: correlateMigrations(A, R) succeeds exactly when every version of A is
\* in R, and then returns the registry descriptors of A's versions, ascending.
C7_Correlate ==
    CorrelateDone
      => /\ fnOut.out.err = "nil" <=> AppliedVersions \subseteq ActualVersions
         /\ fnOut.out.err = "nil" => fnOut.out.correlated = ActualSeq(AppliedVersions)

\* A success that skipped a registry version which was never applied.
C7_Witness ==
    /\ CorrelateDone /\ fnOut.out.err = "nil" /\ Len(fnOut.out.correlated) >= 2
    /\ \E v \in ActualVersions \ AppliedVersions : v < SetMax(AppliedVersions)

FirstAbsent == SetMin(AppliedVersions \ ActualVersions)

\* C8: when A holds a version absent from R, correlateMigrations fails with
\* "some migrations are absent" and returns the registry descriptors of the
\* applied versions below the first absent one, then that applied entry.
C8_CorrelateAbsent ==
    (CorrelateDone /\ ~(AppliedVersions \subseteq ActualVersions))
      => /\ fnOut.out.err = "ErrorSomeMigrationsAreAbsent"
         /\ fnOut.out.correlated =
              ActualSeq({v \in AppliedVersions : v < FirstAbsent})
                \o <<Migration(FirstAbsent, TRUE, FALSE)>>

\* A failure after a match, found when the registry ran out.
C8_Witness ==
    /\ CorrelateDone /\ fnOut.out.err = "ErrorSomeMigrationsAreAbsent"
    /\ Len(fnOut.out.correlated) >= 2
    /\ FirstAbsent > SetMax(ActualVersions)

\* C9: with a fixed registry, from an absent table, the recorded versions are
\* always a contiguous prefix of the registry.
C9_Prefix == IsPrefixOf(Range(rows), migrations)

\* A Down took a record off a table that a failed Up left partly migrated.
C9_Witness ==
    /\ prev.op = "Up" /\ prev.err = "proc" /\ prev.ran >= 2
    /\ last.op = "Down" /\ last.err = "nil" /\ last.log # <<>>
    /\ Len(rows) >= 1 /\ Len(rows) < Len(migrations)

\* C10: once recorded, the zero-migration's record is in the table in every
\* later state, also after a call that fails part-way.
C10_Original ==
    [][(Sentinel \in Range(rows)) => (Sentinel \in Range(rows'))]_vars

\* The versions of the procedures of a log, in the order they were run.
LogVersions(log) == [k \in 1..Len(log) |-> log[k][2]]

UpDone == fnOut.fn = "Up"

\* The records of the table Up was run on, in insertion order.
UpBefore == [k \in 1..Len(fnIn.applied) |-> fnIn.applied[k].Version]

\* The version of the procedure that was made to fail (0: none).
FailingVersion == fnIn.fail[1][1]

\* C11: Up runs the forward procedures in strictly ascending version order
\* and has inserted the record of each before the next one runs; when the
\* forward procedure of version k fails, Up returns that error at once: k is
\* the last procedure run, no record for k is inserted, and the records of
\* the versions applied before it in the call stay.
C11_UpStops ==
    UpDone =>
      LET out == fnOut.out
          lv  == LogVersions(out.log)
      IN  /\ \A k \in 1..(Len(lv) - 1) : lv[k] < lv[k + 1]
          /\ out.err = "nil" => out.rows = UpBefore \o lv
          /\ (FailingVersion # 0 /\ FailingVersion \in Range(lv))
               => /\ out.err = "proc"
                  /\ lv[Len(lv)] = FailingVersion
                  /\ out.rows = UpBefore \o Front(lv)

\* A forward procedure failed after another one had been applied.
C11_Witness ==
    /\ UpDone /\ fnOut.out.err = "proc" /\ Len(fnOut.out.log) >= 2
    /\ Len(fnOut.out.rows) = Len(UpBefore) + 1

\* An Up with the target of an Up right before it that aborted on a
\* procedure error or a store error.
RetryUp ==
    /\ prev.op = "Up" /\ prev.err \in {"proc", "db"}
    /\ last.op = "Up" /\ last.target = prev.target

\* The versions whose forward procedure returned without error in the
\* aborted call: all it ran but the failing one, or all when the store
\* failed.  The zero-migration's no-op is left aside.
CompletedBefore ==
    IF prev.err = "proc" THEN Range(LogVersions(RealSteps(Front(prev.log))))
    ELSE Range(LogVersions(RealSteps(prev.log)))

\* C12 as stated: after an Up that aborted on a forward-procedure failure or
\* a store insert failure, the retry runs no forward procedure that completed
\* in the aborted call.
C12_Original == RetryUp => CompletedBefore \cap Range(LogVersions(last.log)) = {}

\* C12 amended: the retry runs no forward procedure whose record the aborted
\* call inserted, that is none but the last one the aborted call ran.
C12_ResumeSkips ==
    (RetryUp /\ prev.log # <<>>)
      => Range(LogVersions(Front(prev.log))) \cap Range(LogVersions(last.log)) = {}

\* The aborted call had applied a migration and the retry went on from there.
C12_Witness ==
    /\ RetryUp /\ prev.err = "proc" /\ Len(prev.log) >= 2
    /\ last.err = "nil" /\ last.log # <<>>

\* C13: when the table holds a record whose version has no descriptor in the
\* registry, Reset returns the inconsistency error before it reverses
\* anything: no backward procedure runs and the records are unchanged.  (A
\* failing read of the table returns the store's error instead.)
C13_ResetAborts ==
    (last.op = "Reset" /\ ~(Range(last.before) \subseteq RegistryVersions))
      => /\ last.err \in {"ErrorSomeMigrationsAreAbsent", "db"}
         /\ last.log = <<>>
         /\ rows = last.before

\* Reset refused a table with a matching record above the zero-migration's
\* and a record the registry does not know.
C13_Witness ==
    /\ last.op = "Reset" /\ last.err = "ErrorSomeMigrationsAreAbsent"
    /\ Range(last.before) \cap RegistryVersions # {Sentinel}
    /\ ~(Range(last.before) \subseteq RegistryVersions)

\* The versions of S from the highest down.
Descending(S) ==
    LET asc == SortAsc(S) IN [k \in 1..Len(asc) |-> asc[Len(asc) + 1 - k]]

\* A Reset on a table whose records all have a descriptor in the registry.
ResetMatching == last.op = "Reset" /\ Range(last.before) \subseteq RegistryVersions

\* What C14 says of such a Reset: on success every recorded version was
\* reversed once, highest first, only the zero-migration's record is left
\* and newVersion is 1; when the backward procedure of k fails, the versions
\* from the highest down to k were run, the records above k are gone and
\* those of k and below are still there.
ResetOutcome ==
    /\ last.err = "nil"
         => /\ LogVersions(last.log) = Descending(Range(last.before))
            /\ rows = <<Sentinel>>
            /\ last.new = 1
    /\ last.err = "proc"
         => LET k == last.log[Len(last.log)][2]
            IN  /\ LogVersions(last.log) = Descending({v \in Range(last.before) : v >= k})
                /\ rows = SelectSeq(last.before, LAMBDA v : v <= k)

\* C14 as stated: so for every table whose records all match the registry.
C14_Original == ResetMatching => ResetOutcome

\* C14 amended: so for every table that holds at least one record and whose
\* records all match the registry.
C14_ResetReverses == (ResetMatching /\ last.before # <<>>) => ResetOutcome

\* A backward procedure failed after a higher version had been reversed.
C14_Witness ==
    /\ ResetMatching /\ last.err = "proc"
    /\ Len(last.log) >= 2 /\ Len(rows) >= 2 /\ Len(rows) < Len(last.before)

\* The highest recorded version before the last call.
LatestBefore == SetMax(Range(last.before))

\* The version of the registry entry right before the one of version v.
RegistryPredecessor(v) == SetMax({w \in RegistryVersions : w < v})

\* C15: a Down whose latest record matches a registry entry that has a
\* predecessor runs exactly that entry's backward procedure, deletes exactly
\* that record and returns old = its version, new = the predecessor's; when
\* the matched entry is the registry's first, Down runs and deletes nothing
\* and returns old = new; on an empty store Down returns the read error and
\* changes nothing.
C15_Down ==
    last.op = "Down" =>
      /\ (last.before # <<>> /\ last.err = "nil" /\ LatestBefore \in RegistryVersions
            /\ LatestBefore # migrations[1].Version)
           => /\ last.log = << <<"Down", LatestBefore>> >>
              /\ rows = SelectSeq(last.before, LAMBDA v : v # LatestBefore)
              /\ last.old = LatestBefore
              /\ last.new = RegistryPredecessor(LatestBefore)
      /\ (last.before # <<>> /\ LatestBefore = migrations[1].Version)
           => /\ last.log = <<>>
              /\ rows = last.before
              /\ last.err = "nil" => (last.old = LatestBefore /\ last.new = LatestBefore)
      /\ last.before = <<>>
           => (last.err = "db" /\ last.log = <<>> /\ rows = <<>>)

\* Down reversed the latest of at least three records.
C15_Witness ==
    /\ last.op = "Down" /\ last.err = "nil" /\ Len(last.log) = 1
    /\ Len(last.before) >= 3 /\ Len(rows) = Len(last.before) - 1

\* A SetVersion whose target has no descriptor in the registry.
SetVersionUnknown == last.op = "SetVersion" /\ last.target \notin RegistryVersions

\* C16 as stated: SetVersion with a target that is not in the registry is
\* rejected with "target version not found", the records are unchanged and
\* no procedure runs.
C16_Original ==
    SetVersionUnknown
      => /\ last.err = "ErrorTargetVersionNotFound"
         /\ rows = last.before
         /\ last.log = <<>>

\* C16 amended: on a table that holds at least one record such a SetVersion
\* is rejected with "target version not found" (when the store fails the read
\* of the current version, with the store's error); on an empty or absent
\* table it returns the error of that read instead.  In every case the
\* records are unchanged and no procedure runs.
C16_SetVersionRejects ==
    SetVersionUnknown
      => /\ rows = last.before
         /\ last.log = <<>>
         /\ (last.before # <<>>)
              => /\ last.err \in {"ErrorTargetVersionNotFound", "db"}
                 /\ SetVersion(migrations, table, last.before, last.target, 0).err
                      = "ErrorTargetVersionNotFound"
         /\ (last.before = <<>>) => last.err = "db"

\* A target between two registry versions was rejected on a migrated table.
C16_Witness ==
    /\ last.op = "SetVersion" /\ last.err = "ErrorTargetVersionNotFound"
    /\ Len(rows) >= 2
    /\ \E v \in RegistryVersions : v > last.target
    /\ last.target > Sentinel

\* C17: for ascending duplicate-free A and R, also when they share versions
\* or A has versions R lacks, the result of mergeMigrations is ascending with
\* no version twice; a version of both is emitted once, as the applied entry,
\* and an entry is tagged Stored exactly when its version is in A.
C17_Original ==
    MergeDone
      => /\ ~fnOut.out.panic
         /\ IsAscending(fnOut.out.merged)
         /\ \A k \in 1..Len(fnOut.out.merged) :
                LET e == fnOut.out.merged[k]
                IN  /\ e.Stored <=> e.Version \in AppliedVersions
                    /\ e.Version \in AppliedVersions => e = Migration(e.Version, TRUE, FALSE)

\* C18: mergeMigrations reads no element outside its inputs: when every
\* version of A is in R there is no index-out-of-range fault, so Up(unset)
\* completes and applies the versions that are missing.
C18_Original ==
    /\ (MergeDone /\ AppliedVersions \subseteq ActualVersions) => ~fnOut.out.panic
    /\ (UpDone /\ AppliedVersions \subseteq ActualVersions /\ fnIn.target = Unset
          /\ fnIn.fail = <<NoProc, 0>>)
         => /\ fnOut.out.err = "nil"
            /\ Range(fnOut.out.rows) = ActualVersions

\* The record inserted last among those in the table.
LastInserted == rows[Len(rows)]

\* C19: with a fixed registry, the most recently inserted record still in
\* the table is the one with the highest version, so Version() is the same
\* under the "last inserted" and the "highest version" reading, and it is the
\* newVersion the last successful Up, Down, Reset or SetVersion returned.
C19_VersionReadings ==
    rows # <<>>
      => /\ LastInserted = SetMax(Range(rows))
         /\ Version(table, rows, 0).new = LastInserted
         /\ (last.op \in {"Up", "Down", "Reset", "SetVersion"} /\ last.err = "nil")
              => last.new = LastInserted

\* SetVersion replaced the records of a migrated table by fewer ones.
C19_Witness ==
    /\ last.op = "SetVersion" /\ last.err = "nil"
    /\ Len(rows) >= 2 /\ Len(last.before) > Len(rows)
    /\ LastInserted = last.new

\* C20: when the latest record has a version with no descriptor in the
\* registry, Down runs no backward procedure, deletes no record and returns
\* old = new = that version with no error.  (A failing read of the latest
\* record returns the store's error.)
C20_DownUnknown ==
    (last.op = "Down" /\ last.before # <<>> /\ LatestBefore \notin RegistryVersions)
      => /\ last.log = <<>>
         /\ rows = last.before
         /\ last.err \in {"nil", "db"}
         /\ last.err = "nil" => (last.old = LatestBefore /\ last.new = LatestBefore)

\* Down returned without error on a table whose latest record lies above a
\* registry version that is recorded too.
C20_Witness ==
    /\ last.op = "Down" /\ last.err = "nil" /\ last.before # <<>>
    /\ LatestBefore \notin RegistryVersions
    /\ \E v \in RegistryVersions \cap Range(rows) : v > Sentinel

====
